---------------------------- MODULE Spec2Model ----------------------------
(***************************************************************************)
(* A model of storyteller.py: the JSON-tolerant record builders            *)
(* (safe_json_loads, parse_request, make_arc_plan, judge_story) and the    *)
(* bounded judge/revise loop of generate_story_with_judging.               *)
(*                                                                         *)
(* The model's text is a sequence of segments; the values json.loads       *)
(* yields are tagged records, so that Python's truthiness, int(), len(),   *)
(* `in`, .get and the exceptions they raise are computed, not assumed.     *)
(***************************************************************************)
EXTENDS Integers, Sequences, FiniteSets, TLC

VARIABLES
    keySet,      \* OPENAI_API_KEY is set to a non-empty value
    raw,         \* the text the model returned to the function under check
    out,         \* what the function under check returned or raised
    pc,          \* position inside the function / the loop
    maxRounds,   \* generate_story_with_judging's max_rounds argument
    round,       \* iterations of `for _ in range(max_rounds)` started
    story,       \* the current draft: the number of the call that wrote it
    verdict,     \* the JudgeResult of the latest judge_story call
    judged,      \* the drafts judge_story has evaluated
    judgeCalls,  \* judge_story calls made
    reviseCalls, \* reviser calls made
    lastJudged,  \* the draft the latest judge call evaluated
    parsed,      \* the ParsedRequest of generate_story_with_judging
    plan,        \* the ArcPlan of generate_story_with_judging
    ret          \* the story generate_story_with_judging returned

vars == <<keySet, raw, out, pc, maxRounds, round, story, verdict, judged,
          judgeCalls, reviseCalls, lastJudged, parsed, plan, ret>>

---------------------------------------------------------------------------
(* Bounds of the model. *)

\* longest constraints list the model's JSON supplies
MaxConstraints == 3
\* longest beats list the model's JSON supplies
MaxBeats == 7
\* highest rubric score the model's JSON supplies
MaxScore == 8
\* most segments of a text the model returns
MaxSegs == 3
\* largest max_rounds argument explored
MaxRoundsArg == 3

(* Program constants. *)
MinWords == 600
MaxWords == 1100
DefaultWords == 900
NumBeats == 6
MinScore == 7
MinSafety == 8

---------------------------------------------------------------------------
(* JSON values as Python sees them after json.loads.                       *)
(*   k: "none" | "bool" | "int" | "str" | "list" | "dict"                  *)
(*   n: the number (int), 1/0 (bool)                                       *)
(*   s: the items (list) or the tokens (str), as strings                   *)
(*   d: the entries of a dict, in insertion order, as [key, num, n]        *)
(*      (num: the value is a number; n: that number)                       *)

JNone == [k |-> "none", n |-> 0, s |-> <<>>, d |-> <<>>]
JBool(b) == [k |-> "bool", n |-> IF b THEN 1 ELSE 0, s |-> <<>>, d |-> <<>>]
JInt(i) == [k |-> "int", n |-> i, s |-> <<>>, d |-> <<>>]
JStr(toks) == [k |-> "str", n |-> 0, s |-> toks, d |-> <<>>]
JList(items) == [k |-> "list", n |-> 0, s |-> items, d |-> <<>>]
JDict(entries) == [k |-> "dict", n |-> 0, s |-> <<>>, d |-> entries]

\* bool(v)
Truthy(v) ==
    CASE v.k = "none" -> FALSE
      [] v.k = "bool" -> v.n = 1
      [] v.k = "int"  -> v.n # 0
      [] v.k = "str"  -> Len(v.s) > 0
      [] v.k = "list" -> Len(v.s) > 0
      [] v.k = "dict" -> Len(v.d) > 0

\* dict.get(key, default) on a JSON object (a function from its keys)
Get(data, key, default) == IF key \in DOMAIN data THEN data[key] ELSE default

\* x or y
Or(x, y) == IF Truthy(x) THEN x ELSE y

Returned(v) == [err |-> "none", val |-> v]
Raised(e) == [err |-> e, val |-> JNone]
NotCalled == [err |-> "pending", val |-> JNone]

Range(f) == {f[i] : i \in DOMAIN f}
SeqsUpTo(S, n) == UNION {[1..m -> S] : m \in 0..n}

---------------------------------------------------------------------------
(* call_model: raises RuntimeError when the API key is unset, else returns *)
(* the model's text.                                                       *)
call_model(text) == IF keySet THEN Returned(text) ELSE Raised("RuntimeError")

---------------------------------------------------------------------------
(* safe_json_loads.  A text is [segs, obj]: segs the sequence of its       *)
(* segments, obj the content of its JSON-object segments.                  *)
(*   "obj"    a well-formed JSON object {...}                              *)
(*   "arr"    a well-formed non-empty JSON array without braces            *)
(*   "prose"  words without braces                                         *)
(*   "lbrace" a stray {        "rbrace" a stray }                          *)

SegKinds == {"obj", "arr", "prose", "lbrace", "rbrace"}

\* json.loads(segs): the whole text must be one JSON value
json_loads(segs, obj) ==
    IF Len(segs) = 1 /\ segs[1] = "obj" THEN [ok |-> TRUE, k |-> "dict", obj |-> obj]
    ELSE IF Len(segs) = 1 /\ segs[1] = "arr" THEN [ok |-> TRUE, k |-> "list", obj |-> <<>>]
    ELSE [ok |-> FALSE, k |-> "none", obj |-> <<>>]

\* re.search(r"\{.*\}", text, re.DOTALL): from the first { to the last }
HasOpen(seg) == seg \in {"obj", "lbrace"}
HasClose(seg) == seg \in {"obj", "rbrace"}
BraceMatch(segs) ==
    LET opens == {i \in DOMAIN segs : HasOpen(segs[i])}
        closes == {i \in DOMAIN segs : HasClose(segs[i])}
    IN  IF opens = {} \/ closes = {} THEN <<>>
        ELSE LET first == CHOOSE i \in opens : \A j \in opens : i <= j
                 last == CHOOSE i \in closes : \A j \in closes : j <= i
             IN  IF first <= last THEN SubSeq(segs, first, last) ELSE <<>>

safe_json_loads(text) ==
    LET direct == json_loads(text.segs, text.obj)
    IN  IF direct.ok THEN direct
        ELSE LET m == BraceMatch(text.segs)
             IN  IF m # <<>> THEN json_loads(m, text.obj)
                 ELSE [ok |-> FALSE, k |-> "none", obj |-> <<>>]

\* `safe_json_loads(raw) or {}`
DataOrEmpty(text) ==
    LET v == safe_json_loads(text)
    IN  IF v.ok /\ v.k = "dict" THEN [k |-> "dict", obj |-> v.obj]
        ELSE IF v.ok /\ v.k = "list" THEN [k |-> "list", obj |-> <<>>]
        ELSE [k |-> "dict", obj |-> <<>>]

---------------------------------------------------------------------------
(* parse_request *)

required ==
    << "no gore", "no explicit romance", "no cruelty",
       "no graphic violence", "warm ending", "bedtime pacing" >>

\* a membership test that never finds the string: every mandatory string
\* is appended
ContainsNever(c, r) == FALSE

\* `r in c` for the value c of the constraints key
Contains(c, r) == \E i \in DOMAIN c.s : c.s[i] = r

\* the loop `for r in required: if r not in constraints: constraints.append(r)`
\* from index i on; c is a list, a string or something `in` rejects
RECURSIVE AppendRequired(_, _)
AppendRequired(c, i) ==
    IF i > Len(required) THEN Returned(c)
    ELSE IF c.k \in {"none", "bool", "int"} THEN Raised("TypeError")
    ELSE IF Contains(c, required[i]) THEN AppendRequired(c, i + 1)
    ELSE IF c.k = "list" THEN AppendRequired(JList(Append(c.s, required[i])), i + 1)
    ELSE Raised("AttributeError")

DefaultTitle == JStr(<<"A Cozy Bedtime Adventure">>)
DefaultSetting == JStr(<<"a quiet, magical place">>)
DefaultTheme == JStr(<<"friendship and kindness">>)
DefaultTone == JStr(<<"cozy and gentle">>)

ParsedRequest(data, constraints) ==
    [ title_hint  |-> Get(data, "title_hint", DefaultTitle),
      characters  |-> Get(data, "characters", JList(<<>>)),
      setting     |-> Get(data, "setting", DefaultSetting),
      theme       |-> Get(data, "theme", DefaultTheme),
      tone        |-> Get(data, "tone", DefaultTone),
      constraints |-> constraints ]

parse_request(text) ==
    LET called == call_model(text)
        data == DataOrEmpty(text)
    IN  IF called.err # "none" THEN called
        ELSE IF data.k # "dict" THEN Raised("AttributeError")
        ELSE LET cs == AppendRequired(Get(data.obj, "constraints", JList(<<>>)), 1)
             IN  IF cs.err # "none" THEN cs
                 ELSE Returned(ParsedRequest(data.obj, cs.val))

---------------------------------------------------------------------------
(* make_arc_plan *)

DigitChars == <<"0", "1", "2", "3", "4", "5", "6", "7", "8", "9">>
IsDigit(c) == \E i \in DOMAIN DigitChars : DigitChars[i] = c
DigitVal(c) == (CHOOSE i \in DOMAIN DigitChars : DigitChars[i] = c) - 1

\* the decimal number a non-empty sequence of digit characters writes
RECURSIVE Decimal(_)
Decimal(cs) ==
    IF cs = <<>> THEN 0
    ELSE 10 * Decimal(SubSeq(cs, 1, Len(cs) - 1)) + DigitVal(cs[Len(cs)])

\* int(v): numbers and booleans convert, a string is parsed as a signed
\* decimal, anything else is a TypeError
IntOf(v) ==
    CASE v.k = "int"  -> Returned(v.n)
      [] v.k = "bool" -> Returned(v.n)
      [] v.k = "str"  ->
            LET signed == Len(v.s) > 0 /\ v.s[1] \in {"-", "+"}
                digits == IF signed THEN Tail(v.s) ELSE v.s
            IN  IF digits # <<>> /\ \A i \in DOMAIN digits : IsDigit(digits[i])
                THEN Returned(IF signed /\ v.s[1] = "-"
                              THEN 0 - Decimal(digits) ELSE Decimal(digits))
                ELSE Raised("ValueError")
      [] OTHER -> Raised("TypeError")

\* len(v)
LenOf(v) ==
    CASE v.k \in {"list", "str"} -> Returned(Len(v.s))
      [] v.k = "dict" -> Returned(Len(v.d))
      [] OTHER -> Raised("TypeError")

FallbackBeats ==
    JList(<< "Hook: Introduce the characters in a cozy place.",
             "Small Problem: A tiny kid-safe problem appears.",
             "Attempt 1: They try a simple solution.",
             "Attempt 2: They try a different solution.",
             "Gentle Climax: A small safe moment resolves the problem.",
             "Warm Ending: Calm wrap-up and bedtime-ready goodnight." >>)

\* `if target_words < 600 or target_words > 1100: target_words = 900`
ClampWords(n) == IF n < MinWords \/ n > MaxWords THEN DefaultWords ELSE n

\* `if len(beats) != 6: beats = [...]`
CheckBeats(beats, n) == IF n # NumBeats THEN FallbackBeats ELSE beats

make_arc_plan(text) ==
    LET called == call_model(text)
        data == DataOrEmpty(text)
    IN  IF called.err # "none" THEN called
        ELSE IF data.k # "dict" THEN Raised("AttributeError")
        ELSE LET words == IntOf(Or(Get(data.obj, "target_words", JNone), JInt(DefaultWords)))
                 beats == Or(Get(data.obj, "beats", JNone), JList(<<>>))
                 n == LenOf(beats)
             IN  IF words.err # "none" THEN words
                 ELSE IF n.err # "none" THEN n
                 ELSE Returned([ target_words |-> ClampWords(words.val),
                                 beats |-> CheckBeats(beats, n.val) ])

---------------------------------------------------------------------------
(* judge_story *)

Score(key, n) == [key |-> key, num |-> TRUE, n |-> n]
NonNumeric(key) == [key |-> key, num |-> FALSE, n |-> 0]

\* a missing safety score counted as a perfect one
SafetyDefaultsToPass(d) ==
    IF \E i \in DOMAIN d : d[i].key = "safety"
    THEN d[CHOOSE i \in DOMAIN d : d[i].key = "safety"]
    ELSE Score("safety", 10)

\* scores.get("safety", 0)
SafetyOf(d) ==
    IF \E i \in DOMAIN d : d[i].key = "safety"
    THEN d[CHOOSE i \in DOMAIN d : d[i].key = "safety"]
    ELSE Score("safety", 0)

\* all(v >= 7 for v in scores.values()) from entry i on: the generator stops
\* at the first value below 7, and comparing a non-number raises
RECURSIVE AllAtLeast(_, _)
AllAtLeast(d, i) ==
    IF i > Len(d) THEN Returned(JBool(TRUE))
    ELSE IF ~d[i].num THEN Raised("TypeError")
    ELSE IF d[i].n >= MinScore THEN AllAtLeast(d, i + 1)
    ELSE Returned(JBool(FALSE))

\* `all(v >= 7 for v in scores.values()) and safety >= 8`
Rubric(d) ==
    LET a == AllAtLeast(d, 1)
    IN  IF a.err # "none" THEN a
        ELSE IF ~Truthy(a.val) THEN a
        ELSE IF ~SafetyOf(d).num THEN Raised("TypeError")
        ELSE Returned(JBool(SafetyOf(d).n >= MinSafety))

\* the rubric consulted only when the model gave no overall_pass at all
OverallPassWhenAbsent(data, d) ==
    IF "overall_pass" \notin DOMAIN data
    THEN Rubric(d)
    ELSE Returned(data["overall_pass"])

\* lines 305-308: the model's own boolean stands when it is truthy
OverallPass(data, d) ==
    IF ~Truthy(Get(data, "overall_pass", JNone))
    THEN Rubric(d)
    ELSE Returned(Get(data, "overall_pass", JBool(FALSE)))

judge_story(text) ==
    LET called == call_model(text)
        data == DataOrEmpty(text)
    IN  IF called.err # "none" THEN called
        ELSE IF data.k # "dict" THEN Raised("AttributeError")
        ELSE LET scores == Get(data.obj, "scores", JDict(<<>>))
                 pass == OverallPass(data.obj, scores.d)
             IN  IF scores.k # "dict" THEN Raised("AttributeError")
                 ELSE IF pass.err # "none" THEN pass
                 ELSE Returned([ overall_pass |-> pass.val,
                                 scores    |-> scores,
                                 strengths |-> Get(data.obj, "strengths", JList(<<>>)),
                                 issues    |-> Get(data.obj, "issues", JList(<<>>)),
                                 fixes     |-> Get(data.obj, "fixes", JList(<<>>)) ])

---------------------------------------------------------------------------
(* The prompt builders, as far as they can raise. *)

\* `for x in v` / `", ".join(v)`: a truthy number is not iterable
Iterable(v) == v.k \in {"list", "str", "dict"}

\* storyteller_prompt: `", ".join(parsed.characters) if parsed.characters else ...`
storyteller_prompt(p, a) ==
    IF Truthy(p.characters) /\ ~Iterable(p.characters)
    THEN Raised("TypeError")
    ELSE Returned(JNone)

\* reviser_prompt: `for f in (fixes or ["Make it cozier and simpler."])`
reviser_prompt(fixes) ==
    LET used == Or(fixes, JList(<<"Make it cozier and simpler.">>))
    IN  IF Iterable(used) THEN Returned(used) ELSE Raised("TypeError")

---------------------------------------------------------------------------
(* The texts the model is taken to return. *)

Absent == [k |-> "absent", n |-> 0, s |-> <<>>, d |-> <<>>]

\* the JSON object with the keys of r whose value is not Absent
Object(r) == [key \in {x \in DOMAIN r : r[x] # Absent} |-> r[key]]

NoText == [segs |-> <<>>, obj |-> <<>>]
PureJson(objs) == {[segs |-> <<"obj">>, obj |-> o] : o \in objs}
Shaped(objs) ==
    { [segs |-> sg, obj |-> IF "obj" \in Range(sg) THEN o ELSE <<>>] :
        sg \in SeqsUpTo(SegKinds, MaxSegs), o \in objs }

ConstraintWords == {"no gore", "warm ending", "be funny"}
ConstraintValues ==
    {JList(s) : s \in SeqsUpTo(ConstraintWords, MaxConstraints)}
    \cup { Absent, JNone, JInt(0), JStr(<<"no gore">>), JStr(required),
           JList(required),
           JList(<< "bedtime pacing", "warm ending", "no graphic violence",
                    "no cruelty", "no explicit romance", "no gore" >>),
           JList(Append(required, "be funny")),
           JList(<<"be funny">> \o required),
           JList(SubSeq(required, 2, 6)) }

ParseObjects ==
    { Object([title_hint |-> t, characters |-> c, setting |-> s, theme |-> th,
              tone |-> to, constraints |-> cs]) :
        t \in {Absent, JNone, JStr(<<"The Bunny">>), JStr(<<>>)},
        c \in {Absent, JNone, JList(<<"Alice", "Bob">>), JInt(2)},
        s \in {Absent, JStr(<<"a forest">>)},
        th \in {Absent, JNone},
        to \in {Absent, JStr(<<"sleepy">>)},
        cs \in ConstraintValues }

FewParseObjects ==
    { <<>>,
      Object([title_hint |-> JStr(<<"The Bunny">>), constraints |-> JList(<<"be funny">>)]),
      Object([characters |-> JInt(2)]),
      Object([constraints |-> JNone]) }

ParseTexts == PureJson(ParseObjects) \cup Shaped(FewParseObjects)

WordValues ==
    { Absent, JNone, JBool(TRUE), JList(<<"900">>),
      JStr(<<"7", "0", "0">>), JStr(<<"-", "7">>), JStr(<<"a", "b", "c">>), JStr(<<>>) }
    \cup {JInt(n) : n \in {0, MinWords - 1, MinWords, MinWords + 1, DefaultWords,
                           MaxWords, MaxWords + 1, 0 - MinWords}}

BeatWords == {"Hook", "Ending"}
BeatValues ==
    {JList(s) : s \in SeqsUpTo(BeatWords, MaxBeats)}
    \cup { Absent, JNone, JInt(6), JBool(TRUE),
           JStr(<<"b", "e", "a", "t", "s", "!">>), JStr(<<"b">>) }

ArcObjects ==
    {Object([target_words |-> w, beats |-> b]) : w \in WordValues, b \in BeatValues}

FewArcObjects ==
    { <<>>,
      Object([target_words |-> JInt(700), beats |-> JList(<<"Hook", "Ending">>)]),
      Object([target_words |-> JStr(<<"a", "b", "c">>)]) }

ArcTexts == PureJson(ArcObjects) \cup Shaped(FewArcObjects)

Categories == {"safety", "coziness", "creativity"}
ScoreEntries ==
    {Score(c, n) : c \in Categories, n \in {0} \cup ((MinScore - 1)..MaxScore)}
    \cup {NonNumeric(c) : c \in Categories}
ScoreDicts ==
    { d \in SeqsUpTo(ScoreEntries, Cardinality(Categories)) :
        \A i, j \in DOMAIN d : i # j => d[i].key # d[j].key }
ScoreValues == {JDict(d) : d \in ScoreDicts} \cup {Absent, JNone, JList(<<"8">>)}

PassValues ==
    {Absent, JNone, JBool(TRUE), JBool(FALSE), JInt(0), JStr(<<"yes">>)}

FixValues == {Absent, JList(<<"Add a lullaby.">>), JInt(1)}

JudgeObjects ==
    { Object([overall_pass |-> p, scores |-> sc, fixes |-> f]) :
        p \in PassValues, sc \in ScoreValues, f \in FixValues }

FewJudgeObjects ==
    { <<>>,
      Object([overall_pass |-> JBool(TRUE)]),
      Object([overall_pass |-> JBool(FALSE), scores |-> JDict(<<Score("safety", 8)>>)]),
      Object([scores |-> JDict(<<NonNumeric("safety")>>)]) }

JudgeTexts == PureJson(JudgeObjects) \cup Shaped(FewJudgeObjects)

---------------------------------------------------------------------------
(* One call of parse_request, make_arc_plan or judge_story on a text.      *)

Idle ==
    /\ maxRounds = 0 /\ round = 0 /\ story = 0 /\ verdict = NotCalled
    /\ judged = {} /\ judgeCalls = 0 /\ reviseCalls = 0 /\ lastJudged = 0
    /\ parsed = NotCalled /\ plan = NotCalled /\ ret = 0

InitCall(fn, texts) ==
    /\ keySet \in BOOLEAN
    /\ raw \in IF keySet THEN texts ELSE {NoText}
    /\ out = NotCalled
    /\ pc = fn
    /\ Idle

LoopVars ==
    <<maxRounds, round, story, verdict, judged, judgeCalls, reviseCalls,
      lastJudged, parsed, plan, ret>>

DoParseRequest ==
    /\ pc = "parse_request"
    /\ out' = parse_request(raw)
    /\ pc' = "done"
    /\ UNCHANGED <<keySet, raw, LoopVars>>

DoMakeArcPlan ==
    /\ pc = "make_arc_plan"
    /\ out' = make_arc_plan(raw)
    /\ pc' = "done"
    /\ UNCHANGED <<keySet, raw, LoopVars>>

DoJudgeStory ==
    /\ pc = "judge_story"
    /\ out' = judge_story(raw)
    /\ pc' = "done"
    /\ UNCHANGED <<keySet, raw, LoopVars>>

InitParse == InitCall("parse_request", ParseTexts)
NextParse == DoParseRequest
SpecParse == InitParse /\ [][NextParse]_vars

InitArc == InitCall("make_arc_plan", ArcTexts)
NextArc == DoMakeArcPlan
SpecArc == InitArc /\ [][NextArc]_vars

InitJudge == InitCall("judge_story", JudgeTexts)
NextJudge == DoJudgeStory
SpecJudge == InitJudge /\ [][NextJudge]_vars

---------------------------------------------------------------------------
(* generate_story_with_judging(user_request, max_rounds).                  *)
(* A draft is named by the number of revisions that led to it: 0 is the    *)
(* storyteller's draft, k the output of the k-th reviser call.             *)

LoopParseTexts ==
    PureJson({ <<>>, Object([characters |-> JInt(2)]), Object([constraints |-> JNone]) })
    \cup {[segs |-> <<"prose">>, obj |-> <<>>]}

LoopArcTexts ==
    PureJson({ <<>>, Object([target_words |-> JInt(700)]),
               Object([target_words |-> JStr(<<"a", "b", "c">>)]) })

LoopJudgeTexts ==
    PureJson({ Object([overall_pass |-> p, scores |-> sc, fixes |-> f]) :
                 p \in {Absent, JBool(TRUE), JBool(FALSE)},
                 sc \in { Absent, JDict(<<Score("safety", 8), Score("coziness", 7)>>),
                          JDict(<<Score("safety", 8), Score("coziness", 6)>>),
                          JDict(<<NonNumeric("safety")>>) },
                 f \in FixValues })
    \cup {[segs |-> <<"arr">>, obj |-> <<>>]}

Texts(texts) == IF keySet THEN texts ELSE {NoText}

\* `if verdict.overall_pass:`
Passed(v) == v.err = "none" /\ Truthy(v.val.overall_pass)

\* a loop that stops one round early
LoopContinuesOffByOne == round + 1 < maxRounds

\* `for _ in range(max_rounds)`: another iteration starts
LoopContinues == round < maxRounds

Raise(r) == pc' = "raised" /\ out' = r

\* line 320
GenParse ==
    /\ pc = "parse"
    /\ \E text \in Texts(LoopParseTexts) :
         LET r == parse_request(text)
         IN  IF r.err # "none"
             THEN Raise(r) /\ UNCHANGED parsed
             ELSE parsed' = r /\ pc' = "plan" /\ UNCHANGED out
    /\ UNCHANGED <<keySet, raw, maxRounds, round, story, verdict, judged,
                   judgeCalls, reviseCalls, lastJudged, plan, ret>>

\* line 321
GenPlan ==
    /\ pc = "plan"
    /\ \E text \in Texts(LoopArcTexts) :
         LET r == make_arc_plan(text)
         IN  IF r.err # "none"
             THEN Raise(r) /\ UNCHANGED plan
             ELSE plan' = r /\ pc' = "draft" /\ UNCHANGED out
    /\ UNCHANGED <<keySet, raw, maxRounds, round, story, verdict, judged,
                   judgeCalls, reviseCalls, lastJudged, parsed, ret>>

\* line 323
GenDraft ==
    /\ pc = "draft"
    /\ LET prompt == storyteller_prompt(parsed.val, plan.val)
           called == call_model(NoText)
       IN  IF prompt.err # "none" THEN Raise(prompt) /\ UNCHANGED story
           ELSE IF called.err # "none" THEN Raise(called) /\ UNCHANGED story
           ELSE story' = 0 /\ pc' = "loop" /\ UNCHANGED out
    /\ UNCHANGED <<keySet, raw, maxRounds, round, verdict, judged,
                   judgeCalls, reviseCalls, lastJudged, parsed, plan, ret>>

\* a loop that revises whatever the verdict says
LoopJudgeIgnoresPass ==
    /\ pc = "loop"
    /\ LoopContinues
    /\ round' = round + 1
    /\ judgeCalls' = judgeCalls + 1
    /\ judged' = judged \cup {story}
    /\ lastJudged' = story
    /\ \E text \in Texts(LoopJudgeTexts) :
         LET v == judge_story(text)
         IN  /\ verdict' = v
             /\ IF v.err # "none" THEN Raise(v) /\ UNCHANGED ret
                ELSE pc' = "revise" /\ UNCHANGED <<ret, out>>
    /\ UNCHANGED <<keySet, raw, maxRounds, story, reviseCalls, parsed, plan>>

\* lines 325-328: judge the current draft and return it when it passes
LoopJudge ==
    /\ pc = "loop"
    /\ LoopContinues
    /\ round' = round + 1
    /\ judgeCalls' = judgeCalls + 1
    /\ judged' = judged \cup {story}
    /\ lastJudged' = story
    /\ \E text \in Texts(LoopJudgeTexts) :
         LET v == judge_story(text)
         IN  /\ verdict' = v
             /\ IF v.err # "none" THEN Raise(v) /\ UNCHANGED ret
                ELSE IF Passed(v) THEN pc' = "returned" /\ ret' = story /\ UNCHANGED out
                ELSE pc' = "revise" /\ UNCHANGED <<ret, out>>
    /\ UNCHANGED <<keySet, raw, maxRounds, story, reviseCalls, parsed, plan>>

\* lines 329-332: the reviser writes the next draft
LoopRevise ==
    /\ pc = "revise"
    /\ LET prompt == reviser_prompt(verdict.val.fixes)
           called == call_model(NoText)
       IN  IF prompt.err # "none" THEN Raise(prompt) /\ UNCHANGED <<story, reviseCalls>>
           ELSE IF called.err # "none" THEN Raise(called) /\ UNCHANGED <<story, reviseCalls>>
           ELSE /\ reviseCalls' = reviseCalls + 1
                /\ story' = reviseCalls + 1
                /\ pc' = "loop"
                /\ UNCHANGED out
    /\ UNCHANGED <<keySet, raw, maxRounds, round, verdict, judged, judgeCalls,
                   lastJudged, parsed, plan, ret>>

\* a loop that gives back the draft it judged last
LoopExitReturnsJudged ==
    /\ pc = "loop"
    /\ ~LoopContinues
    /\ ret' = lastJudged
    /\ pc' = "returned"
    /\ UNCHANGED <<keySet, raw, out, maxRounds, round, story, verdict, judged,
                   judgeCalls, reviseCalls, lastJudged, parsed, plan>>

\* line 334: the round budget is used up
LoopExit ==
    /\ pc = "loop"
    /\ ~LoopContinues
    /\ ret' = story
    /\ pc' = "returned"
    /\ UNCHANGED <<keySet, raw, out, maxRounds, round, story, verdict, judged,
                   judgeCalls, reviseCalls, lastJudged, parsed, plan>>

Init ==
    /\ keySet \in BOOLEAN
    /\ maxRounds \in 0..MaxRoundsArg
    /\ raw = NoText
    /\ out = NotCalled
    /\ pc = "parse"
    /\ round = 0 /\ story = 0 /\ verdict = NotCalled
    /\ judged = {} /\ judgeCalls = 0 /\ reviseCalls = 0 /\ lastJudged = 0
    /\ parsed = NotCalled /\ plan = NotCalled /\ ret = 0

Next == GenParse \/ GenPlan \/ GenDraft \/ LoopJudge \/ LoopRevise \/ LoopExit

Spec == Init /\ [][Next]_vars

\* the function runs on one thread and each statement is followed by the next
FairSpec == Spec /\ WF_vars(Next)

---------------------------------------------------------------------------
(* Vocabulary of the properties. *)

\* the value the model's JSON gives for key (Absent: the key is missing)
Stated(key) == Get(DataOrEmpty(raw).obj, key, Absent)

\* the call under check has returned a record
CallReturned == pc = "done" /\ out.err = "none"

\* the rubric: every score is at least 7 and the safety score at least 8
RubricHolds(d) ==
    /\ \A i \in DOMAIN d : d[i].num /\ d[i].n >= MinScore
    /\ \E i \in DOMAIN d : d[i].key = "safety" /\ d[i].num /\ d[i].n >= MinSafety

\* some score is below 7, or the safety score is below 8
RubricBroken(d) ==
    \/ \E i \in DOMAIN d : d[i].num /\ d[i].n < MinScore
    \/ \E i \in DOMAIN d : d[i].key = "safety" /\ d[i].num /\ d[i].n < MinSafety

NoDuplicates(s) == \A i, j \in DOMAIN s : i # j => s[i] # s[j]

\* the loop returned on a passing verdict / after using up its rounds
ReturnedOnPass ==
    pc = "returned" /\ verdict.err = "none" /\ Truthy(verdict.val.overall_pass)
ReturnedOnExhaustion ==
    pc = "returned" /\ ~(verdict.err = "none" /\ Truthy(verdict.val.overall_pass))

---------------------------------------------------------------------------
(* judge_story: C1, C7, C9 *)

\* C1: the JudgeResult judge_story returns never passes when a returned
\* score is below 7 or the safety score is below 8, whatever boolean the
\* model reported.
C1_BrokenRubricNeverPasses ==
    CallReturned /\ RubricBroken(out.val.scores.d)
        => ~Truthy(out.val.overall_pass)

C9_FallbackIsRubric ==
    CallReturned /\ (Stated("overall_pass") = Absent \/ ~Truthy(Stated("overall_pass")))
        => /\ out.val.overall_pass.k = "bool"
           /\ Truthy(out.val.overall_pass) <=> RubricHolds(out.val.scores.d)

\* every score present is >= 7, the safety key is missing, the verdict fails
C9_MissingSafetyFails ==
    /\ CallReturned
    /\ Stated("overall_pass") = Absent
    /\ out.val.scores.d # <<>>
    /\ \A i \in DOMAIN out.val.scores.d :
          out.val.scores.d[i].key # "safety" /\ out.val.scores.d[i].n >= MinScore
    /\ out.val.overall_pass = JBool(FALSE)

---------------------------------------------------------------------------
(* make_arc_plan: C4, C6 *)

\* C4: for every response, make_arc_plan returns an ArcPlan with
\* target_words in [600,1100] and six beats; a supplied count outside the
\* range (or none) becomes 900, one inside is kept; a beats list of another
\* length becomes the fallback outline, a six-item list is kept.
C4_ArcPlanAlwaysValid ==
    pc = "done" /\ keySet /\ DataOrEmpty(raw).k = "dict" =>
        /\ out.err = "none"
        /\ out.val.target_words \in MinWords..MaxWords
        /\ out.val.beats.k = "list" /\ Len(out.val.beats.s) = NumBeats
        /\ Stated("target_words").k = "int" =>
              out.val.target_words =
                 IF Stated("target_words").n \in MinWords..MaxWords
                 THEN Stated("target_words").n ELSE DefaultWords
        /\ Stated("target_words") = Absent => out.val.target_words = DefaultWords
        /\ Stated("beats").k = "list" =>
              out.val.beats =
                 IF Len(Stated("beats").s) = NumBeats
                 THEN Stated("beats") ELSE FallbackBeats

\* Every ArcPlan that make_arc_plan does return has target_words in
\* [600,1100] and six beats, with integer counts and beat lists treated as
\* C4 says.
ArcPlanValidWhenReturned ==
    CallReturned =>
        /\ out.val.target_words \in MinWords..MaxWords
        /\ LenOf(out.val.beats).val = NumBeats
        /\ Stated("target_words").k = "int" =>
              out.val.target_words =
                 IF Stated("target_words").n \in MinWords..MaxWords
                 THEN Stated("target_words").n ELSE DefaultWords
        /\ Stated("target_words") = Absent => out.val.target_words = DefaultWords
        /\ Stated("beats").k = "list" =>
              out.val.beats =
                 IF Len(Stated("beats").s) = NumBeats
                 THEN Stated("beats") ELSE FallbackBeats

\* C6: malformed model output is never raised to the caller: the only
\* exception a call can end in is the missing-key RuntimeError.
C6_MalformedOutputNeverRaised ==
    pc = "done" => out.err \in {"none", "RuntimeError"}

---------------------------------------------------------------------------
(* parse_request: C5, C8 *)

\* C5 as claimed: for every constraints list the model supplies, the
\* returned constraints hold each of the six mandatory strings and no
\* entry twice.
C5_MandatoryAndNoDuplicates ==
    pc = "done" /\ Stated("constraints").k = "list" =>
        /\ out.err = "none"
        /\ \A i \in DOMAIN required : required[i] \in Range(out.val.constraints.s)
        /\ NoDuplicates(out.val.constraints.s)

\* C5 as amended: for every constraints list the model supplies, the
\* returned constraints are the supplied list followed by the mandatory
\* strings it lacks, in their fixed order: each of the six is present, none
\* is appended twice or when already there, and the list has no duplicate
\* entries whenever the supplied one had none.
C5_AppendsOnlyMissing ==
    pc = "done" /\ Stated("constraints").k = "list" =>
        LET given == Stated("constraints").s
            missing(r) == r \notin Range(given)
        IN  /\ out.err = "none"
            /\ out.val.constraints.k = "list"
            /\ out.val.constraints.s = given \o SelectSeq(required, missing)
            /\ \A i \in DOMAIN required : required[i] \in Range(out.val.constraints.s)
            /\ NoDuplicates(given) => NoDuplicates(out.val.constraints.s)

\* a supplied list with some of the mandatory strings, one of them twice
C5_SomeSuppliedTwice ==
    /\ CallReturned
    /\ Stated("constraints").k = "list"
    /\ ~NoDuplicates(Stated("constraints").s)
    /\ "no gore" \in Range(Stated("constraints").s)
    /\ "warm ending" \notin Range(Stated("constraints").s)
    /\ Len(out.val.constraints.s) > Len(Stated("constraints").s)

\* C8: the ParsedRequest parse_request returns has every field populated:
\* title_hint, setting, theme and tone are strings, characters and
\* constraints are lists, also when the JSON omits a key or gives it null.
C8_AllFieldsPopulated ==
    CallReturned =>
        /\ out.val.title_hint.k = "str"
        /\ out.val.setting.k = "str"
        /\ out.val.theme.k = "str"
        /\ out.val.tone.k = "str"
        /\ out.val.characters.k = "list"
        /\ out.val.constraints.k = "list"

---------------------------------------------------------------------------
(* generate_story_with_judging: C2, C3, C10 *)

Terminated == pc \in {"returned", "raised"}

\* C2: when every judge call reports failure and max_rounds >= 1, exactly
\* max_rounds judge calls and max_rounds reviser calls are made, the loop
\* ends (its calls are bounded by max_rounds and it is never stuck before
\* it returns or raises), and the story returned is the last reviser
\* call's output, not the first draft.
C2_ExhaustedAfterMaxRounds ==
    /\ judgeCalls <= maxRounds /\ reviseCalls <= judgeCalls /\ round = judgeCalls
    /\ ~Terminated => ENABLED Next
    /\ ReturnedOnExhaustion /\ maxRounds >= 1 =>
          /\ judgeCalls = maxRounds
          /\ reviseCalls = maxRounds
          /\ ret = reviseCalls
          /\ ret # 0

\* Under FairSpec every run of generate_story_with_judging returns or raises.
LoopTerminates == <>Terminated

C2_AllRoundsFailed ==
    ReturnedOnExhaustion /\ maxRounds >= 2 /\ judgeCalls = maxRounds

\* C3: when the judge first passes a draft on its k-th call, k judge calls
\* and k-1 reviser calls have been made, nothing is called afterwards, and
\* the story returned is the draft that call evaluated; for k = 1 it is the
\* storyteller's draft.
C3_PassReturnsJudgedDraft ==
    ReturnedOnPass =>
        /\ judgeCalls \in 1..maxRounds
        /\ reviseCalls = judgeCalls - 1
        /\ ret = lastJudged
        /\ ret = judgeCalls - 1
        /\ judgeCalls = 1 => ret = 0
        /\ ~ENABLED Next

C3_PassedOnSecondCall ==
    ReturnedOnPass /\ judgeCalls = 2

\* C10: when the loop returns without a passing verdict, the story returned
\* is one no judge call evaluated: the last reviser call's output, or, for
\* max_rounds = 0, the first draft after no judge and no reviser call.
C10_ExhaustedDraftIsUnjudged ==
    ReturnedOnExhaustion =>
        /\ ret \notin judged
        /\ ret = reviseCalls
        /\ judged = 0..(ret - 1)
        /\ maxRounds = 0 => ret = 0 /\ judgeCalls = 0 /\ reviseCalls = 0

C10_UnjudgedRevisionReturned ==
    ReturnedOnExhaustion /\ judged # {} /\ ret = reviseCalls /\ ret > 0

=============================================================================
